---------------------------- MODULE Spec2Model ----------------------------
(***************************************************************************)
(* Model of the URL query-string engine of ts-axios as the lessons give    *)
(* it: encode (docs/chapter4/url.md) and buildURL in its final form with   *)
(* paramsSerializer (docs/chapter10/paramsSerializer.md), called through   *)
(* transformURL / processConfig.                                           *)
(*                                                                         *)
(* A JavaScript string is a sequence of characters, each character a      *)
(* one-element token.  "U+00E9" stands for a two-byte UTF-8 character and *)
(* "U+D800" for a lone surrogate.                                          *)
(***************************************************************************)
EXTENDS Integers, Sequences, FiniteSets

VARIABLES
    config,     \* the request configuration: url, params, paramsSerializer
    call,       \* the arguments of the last buildURL call (url, params as they were)
    outcome,    \* what the last buildURL call did: returned url or thrown error
    log,        \* the calls buildURL made: paramsSerializer, toString, encode
    encIn,      \* the argument of the last direct encode call
    encOut,     \* its outcome
    encAgain    \* the outcome of encode called on the string encode returned

vars == <<config, call, outcome, log, encIn, encOut, encAgain>>

---------------------------------------------------------------------------
(* Bounds of the model *)

MaxStrLen == 3
MaxUrlLen == 2
MaxKeys == 2
MaxArrayLen == 2
MaxProcessLen == 16

---------------------------------------------------------------------------
(* Outcomes of a call: a returned value or a thrown error *)

Ret(v) == [ok |-> TRUE, v |-> v, err |-> "none"]
Throw(e) == [ok |-> FALSE, v |-> <<>>, err |-> e]
None == [ok |-> FALSE, v |-> <<>>, err |-> "not called"]

---------------------------------------------------------------------------
(* Strings *)

Range(s) == {s[i] : i \in 1..Len(s)}

RECURSIVE Count(_, _)
Count(s, c) ==
    IF s = <<>> THEN 0
    ELSE (IF Head(s) = c THEN 1 ELSE 0) + Count(Tail(s), c)

RECURSIVE Concat(_)
Concat(ss) == IF ss = <<>> THEN <<>> ELSE Head(ss) \o Concat(Tail(ss))

\* Array.prototype.join
RECURSIVE join(_, _)
join(parts, sep) ==
    IF parts = <<>> THEN <<>>
    ELSE IF Len(parts) = 1 THEN parts[1]
    ELSE parts[1] \o sep \o join(Tail(parts), sep)

\* String.prototype.indexOf for a one-character needle; -1 when absent
RECURSIVE indexOfFrom(_, _, _)
indexOfFrom(s, c, i) ==
    IF i >= Len(s) THEN -1
    ELSE IF s[i + 1] = c THEN i
    ELSE indexOfFrom(s, c, i + 1)

indexOf(s, c) == indexOfFrom(s, c, 0)

\* String.prototype.slice(0, end) for 0 <= end
slice(s, end) == SubSeq(s, 1, IF end > Len(s) THEN Len(s) ELSE end)

BoundedSeq(S, n) == UNION {[1..m -> S] : m \in 0..n}

---------------------------------------------------------------------------
(* encodeURIComponent *)

Letters ==
    {"a","b","c","d","e","f","g","h","i","j","k","l","m","n","o","p","q","r",
     "s","t","u","v","w","x","y","z",
     "A","B","C","D","E","F","G","H","I","J","K","L","M","N","O","P","Q","R",
     "S","T","U","V","W","X","Y","Z"}

Digits == {"0","1","2","3","4","5","6","7","8","9"}

\* the characters encodeURIComponent leaves as they are
uriUnescaped == Letters \cup Digits \cup {"-", "_", ".", "!", "~", "*", "'", "(", ")"}

LoneSurrogate == "U+D800"

\* the UTF-8 bytes of a character, each as two upper-case hexadecimal digits
Utf8Hex(c) ==
    CASE c = " "  -> << <<"2","0">> >>
      [] c = "\"" -> << <<"2","2">> >>
      [] c = "#"  -> << <<"2","3">> >>
      [] c = "$"  -> << <<"2","4">> >>
      [] c = "%"  -> << <<"2","5">> >>
      [] c = "&"  -> << <<"2","6">> >>
      [] c = "+"  -> << <<"2","B">> >>
      [] c = ","  -> << <<"2","C">> >>
      [] c = "/"  -> << <<"2","F">> >>
      [] c = ":"  -> << <<"3","A">> >>
      [] c = ";"  -> << <<"3","B">> >>
      [] c = "="  -> << <<"3","D">> >>
      [] c = "?"  -> << <<"3","F">> >>
      [] c = "@"  -> << <<"4","0">> >>
      [] c = "["  -> << <<"5","B">> >>
      [] c = "\\" -> << <<"5","C">> >>
      [] c = "]"  -> << <<"5","D">> >>
      [] c = "{"  -> << <<"7","B">> >>
      [] c = "}"  -> << <<"7","D">> >>
      [] c = "U+00E9" -> << <<"C","3">>, <<"A","9">> >>

RECURSIVE PercentBytes(_)
PercentBytes(bytes) ==
    IF bytes = <<>> THEN <<>>
    ELSE <<"%">> \o Head(bytes) \o PercentBytes(Tail(bytes))

\* encodeURIComponent on a string; a lone surrogate makes it throw URIError
RECURSIVE EscapeAll(_)
EscapeAll(s) ==
    IF s = <<>> THEN <<>>
    ELSE (IF Head(s) \in uriUnescaped THEN <<Head(s)>>
          ELSE PercentBytes(Utf8Hex(Head(s)))) \o EscapeAll(Tail(s))

encodeURIComponentStr(s) ==
    IF LoneSurrogate \in Range(s) THEN Throw("URIError") ELSE Ret(EscapeAll(s))

---------------------------------------------------------------------------
(* String.prototype.replace with a literal pattern *)

ToUpper(c) ==
    CASE c = "a" -> "A" [] c = "b" -> "B" [] c = "c" -> "C"
      [] c = "d" -> "D" [] c = "e" -> "E" [] c = "f" -> "F"
      [] OTHER -> c

\* one character of a pattern against one of the subject; ci is the
\* regular expression's i flag
MatchChar(c, p, ci) == c = p \/ (ci /\ ToUpper(c) = ToUpper(p))

\* does pat occur in s at 1-based position i
MatchAt(s, i, pat, ci) ==
    /\ i + Len(pat) - 1 <= Len(s)
    /\ \A j \in 1..Len(pat) : MatchChar(s[i + j - 1], pat[j], ci)

RECURSIVE replaceFrom(_, _, _, _, _)
replaceFrom(s, i, pat, ci, rep) ==
    IF i > Len(s) THEN <<>>
    ELSE IF MatchAt(s, i, pat, ci)
         THEN rep \o replaceFrom(s, i + Len(pat), pat, ci, rep)
         ELSE <<s[i]>> \o replaceFrom(s, i + 1, pat, ci, rep)

\* replace without the g flag: the first occurrence only
replaceFirst(s, pat, ci, rep) ==
    IF \E i \in 1..Len(s) : MatchAt(s, i, pat, ci)
    THEN LET i == CHOOSE i \in 1..Len(s) :
                     /\ MatchAt(s, i, pat, ci)
                     /\ \A j \in 1..(i - 1) : ~MatchAt(s, j, pat, ci)
         IN SubSeq(s, 1, i - 1) \o rep \o SubSeq(s, i + Len(pat), Len(s))
    ELSE s

\* s.replace(/pat/g, rep) and s.replace(/pat/gi, rep): every occurrence,
\* found from left to right
replaceAll(s, pat, ci, rep) == replaceFrom(s, 1, pat, ci, rep)

---------------------------------------------------------------------------
(* JavaScript values *)

Undefined == [t |-> "undefined"]
Null == [t |-> "null"]
Str(s) == [t |-> "string", s |-> s]
Num(n) == [t |-> "number", n |-> n, nan |-> FALSE]
NaN == [t |-> "number", n |-> 0, nan |-> TRUE]
Bool(b) == [t |-> "boolean", b |-> b]
\* a Date holds a time value: the day since 1970-01-01 and the millisecond
\* within that day; an invalid Date holds NaN
DateOf(day, ms) == [t |-> "Date", valid |-> TRUE, day |-> day, ms |-> ms]
InvalidDate == [t |-> "Date", valid |-> FALSE, day |-> 0, ms |-> 0]
\* a plain object: its own enumerable properties in enumeration order
Obj(props) == [t |-> "Object", props |-> props]
Prop(k, v) == [k |-> k, v |-> v]
\* a property value that refers back to the object holding it
Circular == [t |-> "circular"]
Arr(elems) == [t |-> "Array", elems |-> elems]
\* a URLSearchParams: its list of name/value pairs
URLSearchParams(list) == [t |-> "URLSearchParams", list |-> list]
\* a caller's paramsSerializer: what it returns, or that it throws
Serializer(ret) == [t |-> "function", throws |-> FALSE, ret |-> ret]
ThrowingSerializer == [t |-> "function", throws |-> TRUE, ret |-> <<>>]

\* ToBoolean
Truthy(v) ==
    CASE v.t = "undefined" -> FALSE
      [] v.t = "null" -> FALSE
      [] v.t = "boolean" -> v.b
      [] v.t = "number" -> ~v.nan /\ v.n # 0
      [] v.t = "string" -> v.s # <<>>
      [] OTHER -> TRUE

DigitChar(d) == <<"0","1","2","3","4","5","6","7","8","9">>[d + 1]

RECURSIVE NatStr(_)
NatStr(n) == IF n < 10 THEN <<DigitChar(n)>> ELSE NatStr(n \div 10) \o <<DigitChar(n % 10)>>

\* n in decimal, left-padded with zeros to w digits
RECURSIVE Pad(_, _)
Pad(n, w) == IF w = 0 THEN <<>> ELSE Pad(n \div 10, w - 1) \o <<DigitChar(n % 10)>>

\* ToString
RECURSIVE ToString(_)
ToString(v) ==
    CASE v.t = "undefined" -> <<"u","n","d","e","f","i","n","e","d">>
      [] v.t = "null" -> <<"n","u","l","l">>
      [] v.t = "boolean" -> IF v.b THEN <<"t","r","u","e">> ELSE <<"f","a","l","s","e">>
      [] v.t = "number" ->
            IF v.nan THEN <<"N","a","N">>
            ELSE IF v.n < 0 THEN <<"-">> \o NatStr(-v.n) ELSE NatStr(v.n)
      [] v.t = "string" -> v.s
      [] v.t = "Array" ->
            join([i \in 1..Len(v.elems) |->
                    IF v.elems[i].t \in {"undefined", "null"} THEN <<>>
                    ELSE ToString(v.elems[i])], <<",">>)
      [] OTHER -> <<"[","o","b","j","e","c","t"," ","O","b","j","e","c","t","]">>

\* encodeURIComponent applies ToString to its argument first
encodeURIComponent(v) == encodeURIComponentStr(ToString(v))

\* encode that restores '+' from %2B as well
encodeKeepsPlus(val) ==
    LET replaced(e) ==
    IF ~e.ok THEN e
    ELSE LET r1 == replaceAll(e.v, <<"%","4","0">>, FALSE, <<"@">>)
             r2 == replaceAll(r1,  <<"%","3","A">>, TRUE,  <<":">>)
             r3 == replaceAll(r2,  <<"%","2","4">>, FALSE, <<"$">>)
             r4 == replaceAll(r3,  <<"%","2","C">>, TRUE,  <<",">>)
             r5 == replaceAll(r4,  <<"%","2","0">>, FALSE, <<"+">>)
             r6 == replaceAll(r5,  <<"%","5","B">>, TRUE,  <<"[">>)
             r7 == replaceAll(r6,  <<"%","5","D">>, TRUE,  <<"]">>)
             r8 == replaceAll(r7,  <<"%","2","B">>, TRUE,  <<"+">>)
         IN Ret(r8)
    IN replaced(encodeURIComponent(val))

\* helpers/url.ts: encode
encode(val) ==
    LET replaced(e) ==
    IF ~e.ok THEN e
    ELSE LET r1 == replaceAll(e.v, <<"%","4","0">>, FALSE, <<"@">>)
             r2 == replaceAll(r1,  <<"%","3","A">>, TRUE,  <<":">>)
             r3 == replaceAll(r2,  <<"%","2","4">>, FALSE, <<"$">>)
             r4 == replaceAll(r3,  <<"%","2","C">>, TRUE,  <<",">>)
             r5 == replaceAll(r4,  <<"%","2","0">>, FALSE, <<"+">>)
             r6 == replaceAll(r5,  <<"%","5","B">>, TRUE,  <<"[">>)
             r7 == replaceAll(r6,  <<"%","5","D">>, TRUE,  <<"]">>)
         IN Ret(r7)
    IN replaced(encodeURIComponent(val))

\* Date.prototype.toISOString: YYYY-MM-DDTHH:mm:ss.sssZ in UTC, RangeError
\* for an invalid Date (years 0000 to 9999)
toISOString(d) ==
    IF ~d.valid THEN Throw("RangeError")
    ELSE LET z == d.day + 719468
             era == z \div 146097
             doe == z - era * 146097
             yoe == (doe - doe \div 1460 + doe \div 36524 - doe \div 146096) \div 365
             doy == doe - (365 * yoe + yoe \div 4 - yoe \div 100)
             mp == (5 * doy + 2) \div 153
             dd == doy - (153 * mp + 2) \div 5 + 1
             mm == IF mp < 10 THEN mp + 3 ELSE mp - 9
             yy == yoe + era * 400 + (IF mm <= 2 THEN 1 ELSE 0)
             hr == d.ms \div 3600000
             mi == (d.ms \div 60000) % 60
             se == (d.ms \div 1000) % 60
             ml == d.ms % 1000
         IN Ret(Pad(yy, 4) \o <<"-">> \o Pad(mm, 2) \o <<"-">> \o Pad(dd, 2) \o <<"T">>
                \o Pad(hr, 2) \o <<":">> \o Pad(mi, 2) \o <<":">> \o Pad(se, 2)
                \o <<".">> \o Pad(ml, 3) \o <<"Z">>)

\* JSON's quoting of a string
RECURSIVE QuoteChars(_)
QuoteChars(s) ==
    IF s = <<>> THEN <<>>
    ELSE (IF Head(s) \in {"\"", "\\"} THEN <<"\\", Head(s)>> ELSE <<Head(s)>>)
         \o QuoteChars(Tail(s))

Quote(s) == <<"\"">> \o QuoteChars(s) \o <<"\"">>

RECURSIVE HasCircular(_)
HasCircular(v) ==
    CASE v.t = "circular" -> TRUE
      [] v.t = "Object" -> \E i \in 1..Len(v.props) : HasCircular(v.props[i].v)
      [] v.t = "Array" -> \E i \in 1..Len(v.elems) : HasCircular(v.elems[i])
      [] OTHER -> FALSE

\* the compact JSON text of a value without circular references
RECURSIVE JSONText(_)
JSONText(v) ==
    CASE v.t = "string" -> Quote(v.s)
      [] v.t = "number" -> IF v.nan THEN <<"n","u","l","l">> ELSE ToString(v)
      [] v.t = "boolean" -> ToString(v)
      [] v.t = "null" -> <<"n","u","l","l">>
      [] v.t = "Date" -> IF v.valid THEN Quote(toISOString(v).v) ELSE <<"n","u","l","l">>
      [] v.t = "Array" ->
            <<"[">> \o join([i \in 1..Len(v.elems) |->
                               IF v.elems[i].t \in {"undefined", "function"}
                               THEN <<"n","u","l","l">> ELSE JSONText(v.elems[i])],
                            <<",">>) \o <<"]">>
      [] v.t = "Object" ->
            LET kept == SelectSeq(v.props,
                                  LAMBDA p : p.v.t \notin {"undefined", "function"})
            IN <<"{">> \o join([i \in 1..Len(kept) |->
                                  Quote(kept[i].k) \o <<":">> \o JSONText(kept[i].v)],
                               <<",">>) \o <<"}">>

\* JSON.stringify: TypeError on a circular structure
JSONstringify(v) == IF HasCircular(v) THEN Throw("TypeError") ELSE Ret(JSONText(v))

\* the application/x-www-form-urlencoded byte serializer
RECURSIVE FormEncode(_)
FormEncode(s) ==
    IF s = <<>> THEN <<>>
    ELSE (IF Head(s) \in Letters \cup Digits \cup {"*", "-", ".", "_"} THEN <<Head(s)>>
          ELSE IF Head(s) = " " THEN <<"+">>
          ELSE PercentBytes(Utf8Hex(Head(s)))) \o FormEncode(Tail(s))

\* URLSearchParams.prototype.toString
URLSearchParamsToString(p) ==
    join([i \in 1..Len(p.list) |->
            FormEncode(p.list[i][1]) \o <<"=">> \o FormEncode(p.list[i][2])], <<"&">>)

\* Object.prototype.toString.call(val)
ObjectToString(v) ==
    CASE v.t = "Date" -> "[object Date]"
      [] v.t = "Object" -> "[object Object]"
      [] v.t = "Array" -> "[object Array]"
      [] v.t = "URLSearchParams" -> "[object URLSearchParams]"
      [] OTHER -> "[object other]"

\* helpers/util.ts
isDate(val) == ObjectToString(val) = "[object Date]"

isPlainObject(val) == ObjectToString(val) = "[object Object]"

isURLSearchParams(val) == val.t # "undefined" /\ val.t = "URLSearchParams"

---------------------------------------------------------------------------
(* helpers/url.ts: buildURL *)

\* Object.keys of a plain object, and the read params[key]
ObjectKeys(o) == IF o.t = "Object" THEN [i \in 1..Len(o.props) |-> o.props[i].k] ELSE <<>>

Get(o, key) ==
    IF o.t = "Object" /\ \E i \in 1..Len(o.props) : o.props[i].k = key
    THEN o.props[CHOOSE i \in 1..Len(o.props) : o.props[i].k = key].v
    ELSE Undefined

Called(fn, arg) == [fn |-> fn, arg |-> arg]

\* a call of the serializer inside a try/catch that gives ''
CallSerializerCaught(f, arg) == IF f.throws THEN Ret(<<>>) ELSE Ret(f.ret)

\* what a call of the caller's paramsSerializer gives
CallSerializer(f, arg) == IF f.throws THEN Throw("SerializerError") ELSE Ret(f.ret)

\* val = val.toISOString() and val = JSON.stringify(val): the string when
\* the call returns one, the error when it throws
assigned(r) == IF r.ok THEN Ret(Str(r.v)) ELSE r

\* convertValue without the plain-object branch
convertValueDateOnly(val) ==
    IF isDate(val)
    THEN assigned(toISOString(val))
    ELSE Ret(val)

\* lines 129-135: the Date and plain-object conversions of one value
convertValue(val) ==
    IF isDate(val)
    THEN assigned(toISOString(val))
    ELSE IF isPlainObject(val)
    THEN assigned(JSONstringify(val))
    ELSE Ret(val)

\* the body of values.forEach: one value of one key.  st holds the locals of
\* buildURL (parts), the params object, the calls made and a pending error.
pushPart(st, key, val0) ==
    LET pushed(ek, ev, logv) ==
            IF ~ev.ok THEN [st EXCEPT !.err = ev.err, !.log = logv]
            ELSE [st EXCEPT !.log = logv,
                            !.parts = Append(st.parts, ek.v \o <<"=">> \o ev.v)]
        keyEncoded(conv, ek, logk) ==
            IF ~ek.ok THEN [st EXCEPT !.err = ek.err, !.log = logk]
            ELSE pushed(ek, encode(conv.v), Append(logk, Called("encode", conv.v)))
        converted(conv) ==
            IF ~conv.ok THEN [st EXCEPT !.err = conv.err]
            ELSE keyEncoded(conv, encode(Str(key)),
                            Append(st.log, Called("encode", Str(key))))
    IN converted(convertValue(val0))

RECURSIVE valuesForEach(_, _, _)
valuesForEach(st, key, values) ==
    IF values = <<>> \/ st.err # "none" THEN st
    ELSE valuesForEach(pushPart(st, key, Head(values)), key, Tail(values))

\* eachKey without the test for null and undefined
eachKeyNoSkip(st, key) ==
    LET val == Get(st.params, key) IN
    valuesForEach(st,
                  IF val.t = "Array" THEN key \o <<"[", "]">> ELSE key,
                  IF val.t = "Array" THEN val.elems ELSE <<val>>)

\* eachKey that leaves the key of an array as it is
eachKeyNoBrackets(st, key) ==
    LET val == Get(st.params, key) IN
    IF val.t = "null" \/ val.t = "undefined" THEN st
    ELSE valuesForEach(st, key, IF val.t = "Array" THEN val.elems ELSE <<val>>)

\* eachKey that writes key + '[]' back into params
eachKeyRenames(st, key) ==
    LET val == Get(st.params, key) IN
    IF val.t = "null" \/ val.t = "undefined" THEN st
    ELSE valuesForEach(
             IF val.t = "Array"
             THEN [st EXCEPT !.params.props =
                      [i \in 1..Len(@) |->
                          IF @[i].k = key THEN Prop(key \o <<"[", "]">>, @[i].v) ELSE @[i]]]
             ELSE st,
             IF val.t = "Array" THEN key \o <<"[", "]">> ELSE key,
             IF val.t = "Array" THEN val.elems ELSE <<val>>)

\* the body of Object.keys(params).forEach: one key
\* an array gives key + '[]' and its elements, anything else gives [val]
eachKey(st, key) ==
    LET val == Get(st.params, key) IN
    IF val.t = "null" \/ val.t = "undefined" THEN st
    ELSE valuesForEach(st,
                       IF val.t = "Array" THEN key \o <<"[", "]">> ELSE key,
                       IF val.t = "Array" THEN val.elems ELSE <<val>>)

RECURSIVE keysForEach(_, _)
keysForEach(st, keys) ==
    IF keys = <<>> \/ st.err # "none" THEN st
    ELSE keysForEach(eachKey(st, Head(keys)), Tail(keys))

\* lines 112-141: default structured serialization
defaultSerialize(params) ==
    LET joined(st) ==
            [ok |-> st.err = "none", err |-> st.err, params |-> st.params,
             log |-> st.log, parts |-> st.parts,
             serializedParams |-> IF st.err = "none" THEN join(st.parts, <<"&">>) ELSE <<>>]
    IN joined(keysForEach([parts |-> <<>>, params |-> params, log |-> <<>>,
                           err |-> "none"],
                          ObjectKeys(params)))

\* serialize with the container test before the serializer test
serializeContainerFirst(params, paramsSerializer) ==
    IF isURLSearchParams(params)
    THEN [ok |-> TRUE, err |-> "none", params |-> params,
          log |-> <<Called("toString", params)>>, parts |-> <<>>,
          serializedParams |-> URLSearchParamsToString(params)]
    ELSE IF Truthy(paramsSerializer)
    THEN LET r == CallSerializer(paramsSerializer, params) IN
         [ok |-> r.ok, err |-> r.err, params |-> params,
          log |-> <<Called("paramsSerializer", params)>>, parts |-> <<>>,
          serializedParams |-> r.v]
    ELSE defaultSerialize(params)

\* lines 107-142: the serialized string, from exactly one of three sources
serialize(params, paramsSerializer) ==
    IF Truthy(paramsSerializer)
    THEN LET r == CallSerializer(paramsSerializer, params) IN
         [ok |-> r.ok, err |-> r.err, params |-> params,
          log |-> <<Called("paramsSerializer", params)>>, parts |-> <<>>,
          serializedParams |-> r.v]
    ELSE IF isURLSearchParams(params)
    THEN [ok |-> TRUE, err |-> "none", params |-> params,
          log |-> <<Called("toString", params)>>, parts |-> <<>>,
          serializedParams |-> URLSearchParamsToString(params)]
    ELSE defaultSerialize(params)

\* appendParams without the cut at the hash mark
appendParamsKeepHash(url, serializedParams) ==
    IF serializedParams # <<>>
    THEN url \o (IF indexOf(url, "?") = -1 THEN <<"?">> ELSE <<"&">>) \o serializedParams
    ELSE url

\* appendParams that looks for the '?' before it cuts the url
appendParamsQueryOfWhole(url, serializedParams) ==
    IF serializedParams # <<>>
    THEN LET markIndex == indexOf(url, "#")
             url1 == IF markIndex # -1 THEN slice(url, markIndex) ELSE url
         IN url1 \o (IF indexOf(url, "?") = -1 THEN <<"?">> ELSE <<"&">>)
                 \o serializedParams
    ELSE url

\* appendParams that always separates with '?'
appendParamsQuestionMark(url, serializedParams) ==
    IF serializedParams # <<>>
    THEN LET markIndex == indexOf(url, "#")
             url1 == IF markIndex # -1 THEN slice(url, markIndex) ELSE url
         IN url1 \o <<"?">> \o serializedParams
    ELSE url

\* appendParams without the test of serializedParams
appendParamsAlways(url, serializedParams) ==
    LET markIndex == indexOf(url, "#")
        url1 == IF markIndex # -1 THEN slice(url, markIndex) ELSE url
    IN url1 \o (IF indexOf(url1, "?") = -1 THEN <<"?">> ELSE <<"&">>)
            \o serializedParams

\* lines 144-153: drop the hash mark, keep the existing query
appendParams(url, serializedParams) ==
    IF serializedParams # <<>>
    THEN LET markIndex == indexOf(url, "#")
             url1 == IF markIndex # -1 THEN slice(url, markIndex) ELSE url
         IN url1 \o (IF indexOf(url1, "?") = -1 THEN <<"?">> ELSE <<"&">>)
                 \o serializedParams
    ELSE url

\* buildURL that returns early on null and undefined only (params == null)
buildURLNullish(url, params, paramsSerializer) ==
    IF params.t \in {"undefined", "null"}
    THEN [ok |-> TRUE, v |-> url, err |-> "none", params |-> params, log |-> <<>>,
          parts |-> <<>>, serializedParams |-> <<>>, serialized |-> FALSE]
    ELSE LET returned(s) ==
                 [ok |-> s.ok,
                  v |-> IF s.ok THEN appendParams(url, s.serializedParams) ELSE <<>>,
                  err |-> s.err, params |-> s.params, log |-> s.log, parts |-> s.parts,
                  serializedParams |-> s.serializedParams, serialized |-> s.ok]
         IN returned(serialize(params, paramsSerializer))

\* buildURL that returns early on undefined only
buildURLUndefinedOnly(url, params, paramsSerializer) ==
    IF params.t = "undefined"
    THEN [ok |-> TRUE, v |-> url, err |-> "none", params |-> params, log |-> <<>>,
          parts |-> <<>>, serializedParams |-> <<>>, serialized |-> FALSE]
    ELSE LET returned(s) ==
                 [ok |-> s.ok,
                  v |-> IF s.ok THEN appendParams(url, s.serializedParams) ELSE <<>>,
                  err |-> s.err, params |-> s.params, log |-> s.log, parts |-> s.parts,
                  serializedParams |-> s.serializedParams, serialized |-> s.ok]
         IN returned(serialize(params, paramsSerializer))

\* lines 96-156.  The result holds what the caller sees (the returned url or
\* the error thrown, and the params object afterwards) and what the call did
\* (the calls made, the local parts and serializedParams).
buildURL(url, params, paramsSerializer) ==
    IF ~Truthy(params)
    THEN [ok |-> TRUE, v |-> url, err |-> "none", params |-> params, log |-> <<>>,
          parts |-> <<>>, serializedParams |-> <<>>, serialized |-> FALSE]
    ELSE LET returned(s) ==
                 [ok |-> s.ok,
                  v |-> IF s.ok THEN appendParams(url, s.serializedParams) ELSE <<>>,
                  err |-> s.err, params |-> s.params, log |-> s.log, parts |-> s.parts,
                  serializedParams |-> s.serializedParams, serialized |-> s.ok]
         IN returned(serialize(params, paramsSerializer))

---------------------------------------------------------------------------
(* The inputs *)

\* the characters a url is made of
UrlChars == {"/", "?", "#"}

Urls == BoundedSeq(UrlChars, MaxUrlLen)

\* 2023-05-09T03:37:20.151Z, the lesson's example
ExampleDate == DateOf(19486, 13040151)

\* { bar: 'baz' } and an object that holds itself
ExampleObject == Obj(<<Prop(<<"b","a","r">>, Str(<<"b","a","z">>))>>)
CircularObject == Obj(<<Prop(<<"m","e">>, Circular)>>)

\* values of a key that are no array
Scalars ==
    {Undefined, Null,
     Str(<<"@", ":", "$", ",", " ">>), Str(<<"&", "=", "+", "#">>), Num(12),
     ExampleDate, ExampleObject,
     InvalidDate, CircularObject, Str(<<LoneSurrogate>>)}

ArrayElems == {Null, Undefined, Str(<<"b">>)}

Arrays == {Arr(e) : e \in BoundedSeq(ArrayElems, MaxArrayLen)}

\* the i-th key of a params object
KeyName(i) == <<"k", IF i % 2 = 1 THEN "&" ELSE " ">> \o NatStr(i)

ObjectOf(vals) == Obj([i \in 1..Len(vals) |-> Prop(KeyName(i), vals[i])])

\* params objects of up to MaxKeys keys without arrays, and params objects
\* with one array between no or one key (a string or null) before and after it
ParamsObjects ==
    {ObjectOf(vals) : vals \in BoundedSeq(Scalars, MaxKeys)}
    \cup {ObjectOf(pre \o <<a>> \o post) :
            pre \in {<<>>, <<Str(<<"c">>)>>, <<Null>>},
            post \in {<<>>, <<Str(<<"c">>)>>, <<Null>>},
            a \in Arrays}

FalsyParams == {Undefined, Null, Num(0), NaN, Str(<<>>), Bool(FALSE)}

SearchParams ==
    {URLSearchParams(<<>>),
     URLSearchParams(<< <<<<"a">>, <<"b">>>>, <<<<"c", " ">>, <<"@", "#">>>> >>)}

\* params for the configurations that vary the url and the serializer
SimpleParams ==
    FalsyParams \cup SearchParams \cup
    {ObjectOf(<<>>), ObjectOf(<<Null>>), ObjectOf(<<Str(<<"b">>)>>),
     ObjectOf(<<Arr(<<>>), Undefined>>)}

Serializers ==
    {Undefined, ThrowingSerializer, Serializer(<<>>),
     Serializer(<<"x", " ", "#", "?", "[">>)}

\* Serialization and merging do not depend on each other: every url and
\* serializer is tried with the simple params, every params object with the
\* url "/" and no serializer.
Configs ==
    [url : Urls, params : SimpleParams, paramsSerializer : Serializers]
    \cup [url : {<<"/">>}, params : ParamsObjects, paramsSerializer : {Undefined}]

\* the strings encode is tried on
EncodeChars ==
    {"a", "3", "A", " ", "+", "@", ":", "$", ",", "[", "]", "&", "=", "?", "#", "%",
     "U+00E9", LoneSurrogate}

EncodeInputs == BoundedSeq(EncodeChars, MaxStrLen)

---------------------------------------------------------------------------
(* The state machine *)

NoCall == [made |-> FALSE, url |-> <<>>, params |-> Undefined,
           paramsSerializer |-> Undefined]
NoOutcome == [ok |-> FALSE, v |-> <<>>, err |-> "not called",
              serializedParams |-> <<>>, serialized |-> FALSE, parts |-> <<>>]
NoConfig == [url |-> <<>>, params |-> Undefined, paramsSerializer |-> Undefined]
NoArg == [made |-> FALSE, val |-> <<>>]
NotAgain == [made |-> FALSE, out |-> None]

Init ==
    /\ config \in Configs
    /\ call = NoCall
    /\ outcome = NoOutcome
    /\ log = <<>>
    /\ encIn = NoArg
    /\ encOut = None
    /\ encAgain = NotAgain

\* core/dispatchRequest.ts transformURL and index.ts processConfig:
\* config.url = buildURL(url, params, paramsSerializer)
ProcessConfig ==
    /\ Len(config.url) <= MaxProcessLen
    /\ LET assign(r) ==
               /\ call' = [made |-> TRUE, url |-> config.url, params |-> config.params,
                           paramsSerializer |-> config.paramsSerializer]
               /\ outcome' = [ok |-> r.ok, v |-> r.v, err |-> r.err,
                              serializedParams |-> r.serializedParams,
                              serialized |-> r.serialized, parts |-> r.parts]
               /\ log' = r.log
               /\ config' = [config EXCEPT !.url = IF r.ok THEN r.v ELSE @,
                                           !.params = r.params]
       IN assign(buildURL(config.url, config.params, config.paramsSerializer))
    /\ UNCHANGED <<encIn, encOut, encAgain>>

Next == ProcessConfig

Spec == Init /\ [][Next]_vars

\* encode on its own: the caller holds a string and calls encode on it once
InitEncode ==
    /\ config = NoConfig
    /\ call = NoCall
    /\ outcome = NoOutcome
    /\ log = <<>>
    /\ encIn \in {[made |-> FALSE, val |-> s] : s \in EncodeInputs}
    /\ encOut = None
    /\ encAgain = NotAgain

Encode ==
    /\ ~encIn.made
    /\ encIn' = [encIn EXCEPT !.made = TRUE]
    /\ encOut' = encode(Str(encIn.val))
    /\ UNCHANGED <<config, call, outcome, log, encAgain>>

\* the caller calls encode once more, on the string encode returned
EncodeAgain ==
    /\ encIn.made /\ encOut.ok
    /\ ~encAgain.made
    /\ encAgain' = [made |-> TRUE, out |-> encode(Str(encOut.v))]
    /\ UNCHANGED <<config, call, outcome, log, encIn, encOut>>

NextEncode == Encode \/ EncodeAgain

SpecEncode == InitEncode /\ [][NextEncode]_vars

---------------------------------------------------------------------------
(* Notions the properties are stated with *)

\* the serialized string was obtained: params was truthy and nothing threw
Serialized == call.made /\ outcome.ok /\ outcome.serialized

SerializerSupplied == Truthy(call.paramsSerializer)

DefaultPath ==
    call.made /\ Truthy(call.params) /\ ~SerializerSupplied
    /\ ~isURLSearchParams(call.params)

ContainerPath ==
    call.made /\ Truthy(call.params) /\ ~SerializerSupplied
    /\ isURLSearchParams(call.params)

\* url cut before its first '#': the longest prefix without a '#'
BeforeHash(url) ==
    CHOOSE p \in {SubSeq(url, 1, n) : n \in 0..Len(url)} :
        /\ "#" \notin Range(p)
        /\ (Len(p) = Len(url) \/ url[Len(p) + 1] = "#")

EndsWith(s, suffix) ==
    Len(s) >= Len(suffix) /\ SubSeq(s, Len(s) - Len(suffix) + 1, Len(s)) = suffix

IsPrefix(p, s) == Len(p) <= Len(s) /\ SubSeq(s, 1, Len(p)) = p

IsSubstring(x, s) == \E i \in 0..(Len(s) - Len(x)) : SubSeq(s, i + 1, i + Len(x)) = x

LogOf(fn) == SelectSeq(log, LAMBDA e : e.fn = fn)

---------------------------------------------------------------------------
(* C1: the serialized string comes from exactly one source, in priority    *)
(* order.  With a serializer and truthy params the only call made is the   *)
(* serializer, once, with params (also when params is a URLSearchParams),  *)
(* encode is not called and the returned string is what is appended.       *)
(* Without a serializer a URLSearchParams is converted by its own toString *)
(* and nothing else is called.  Otherwise neither is called and the string *)
(* is the join of the parts of default serialization.                      *)
PrioritySources ==
    (call.made /\ Truthy(call.params)) =>
        /\ SerializerSupplied =>
              /\ log = <<Called("paramsSerializer", call.params)>>
              /\ outcome.ok => /\ outcome.serializedParams = call.paramsSerializer.ret
                               /\ EndsWith(outcome.v, call.paramsSerializer.ret)
        /\ ContainerPath =>
              /\ log = <<Called("toString", call.params)>>
              /\ outcome.ok
              /\ outcome.serializedParams = URLSearchParamsToString(call.params)
        /\ DefaultPath =>
              /\ LogOf("paramsSerializer") = <<>>
              /\ LogOf("toString") = <<>>
              /\ outcome.ok => outcome.serializedParams = join(outcome.parts, <<"&">>)

\* a serializer was called on a URLSearchParams and its string, which encode
\* would change, was appended
PrioritySourcesWitness ==
    /\ call.made /\ outcome.ok
    /\ SerializerSupplied /\ isURLSearchParams(call.params)
    /\ call.paramsSerializer.ret # <<>>
    /\ encode(Str(call.paramsSerializer.ret)).v # call.paramsSerializer.ret
    /\ EndsWith(outcome.v, call.paramsSerializer.ret)

---------------------------------------------------------------------------
(* C2 as stated: whatever the call, a url that had a '#' comes back        *)
(* without its '#fragment' part.                                           *)
NeverReturnsFragment ==
    (call.made /\ outcome.ok /\ "#" \in Range(call.url)) =>
        ~IsSubstring(SubSeq(call.url, Len(BeforeHash(call.url)) + 1, Len(call.url)),
                     outcome.v)

(* C2 amended: whenever the serialized string is non-empty the url is cut  *)
(* before its first '#', so the returned url holds no '#' but those of a   *)
(* caller's serializer's own return value, and none without a serializer.  *)
FragmentDroppedWhenAppending ==
    (Serialized /\ outcome.serializedParams # <<>>) =>
        /\ IsPrefix(BeforeHash(call.url), outcome.v)
        /\ Count(outcome.v, "#") =
              (IF SerializerSupplied THEN Count(call.paramsSerializer.ret, "#") ELSE 0)

FragmentDroppedWitness ==
    /\ Serialized /\ outcome.serializedParams # <<>>
    /\ "#" \in Range(call.url)
    /\ "#" \notin Range(outcome.v)

---------------------------------------------------------------------------
(* C3: with params undefined or null the url comes back exactly as given,  *)
(* fragment and query included, and nothing is called.                     *)
AbsentParamsShortCircuit ==
    (call.made /\ call.params \in {Undefined, Null}) =>
        /\ outcome.ok
        /\ outcome.v = call.url
        /\ log = <<>>

AbsentParamsWitness ==
    /\ call.made /\ call.params = Null
    /\ SerializerSupplied
    /\ "#" \in Range(call.url) /\ "?" \in Range(call.url)
    /\ outcome.v = call.url

---------------------------------------------------------------------------
(* C4: with a non-empty serialized string S the result is P + sep + S,     *)
(* P the url cut before its first '#', sep '&' if P holds a '?' and '?'    *)
(* otherwise.                                                              *)
MergedWithSeparator ==
    (Serialized /\ outcome.serializedParams # <<>>) =>
        LET P == BeforeHash(call.url)
            sep == IF "?" \in Range(P) THEN <<"&">> ELSE <<"?">>
        IN outcome.v = P \o sep \o outcome.serializedParams

\* a '?' only inside the dropped fragment, and a kept query
MergedWithSeparatorWitness ==
    /\ Serialized /\ outcome.serializedParams # <<>>
    /\ "?" \in Range(call.url)
    /\ "?" \notin Range(BeforeHash(call.url))
    /\ outcome.v = BeforeHash(call.url) \o <<"?">> \o outcome.serializedParams

---------------------------------------------------------------------------
(* Default serialization, stated key by key *)

\* the values a params object emits, in order: for each key whose value is
\* neither null nor undefined, the elements of an array, or the value itself
RECURSIVE Emitted(_)
Emitted(props) ==
    IF props = <<>> THEN <<>>
    ELSE LET p == Head(props) IN
         (IF p.v.t \in {"null", "undefined"} THEN <<>>
          ELSE IF p.v.t = "Array"
               THEN [i \in 1..Len(p.v.elems) |->
                        [key |-> p.k, inArray |-> TRUE, val |-> p.v.elems[i]]]
               ELSE <<[key |-> p.k, inArray |-> FALSE, val |-> p.v]>>)
         \o Emitted(Tail(props))

\* the values of the object that are neither null nor undefined, array
\* elements included
RECURSIVE PresentValues(_)
PresentValues(props) ==
    IF props = <<>> THEN 0
    ELSE LET v == Head(props).v IN
         (IF v.t \in {"null", "undefined"} THEN 0
          ELSE IF v.t = "Array"
               THEN Cardinality({i \in 1..Len(v.elems) :
                                    v.elems[i].t \notin {"null", "undefined"}})
               ELSE 1)
         + PresentValues(Tail(props))

\* what follows the first '=' of a segment
ValueOf(part) == SubSeq(part, indexOf(part, "=") + 2, Len(part))

DefaultDone == DefaultPath /\ outcome.ok

---------------------------------------------------------------------------
(* C5 as stated: no segment is emitted for a null or undefined value,      *)
(* whether it is the value of a key or an element of an array: there are   *)
(* as many segments as values that are neither.                            *)
NoSegmentFromNullAnywhere ==
    DefaultDone => Len(outcome.parts) = PresentValues(call.params.props)

(* C5 amended: a key whose value is null or undefined is omitted, no       *)
(* segment is keyed by it; a null or undefined element of an array value   *)
(* is not omitted, it is emitted as key[]=null or key[]=undefined.         *)
NullKeysOmittedNullElementsEmitted ==
    DefaultDone =>
        \A i \in 1..Len(call.params.props) :
            LET p == call.params.props[i]
                k == encode(Str(p.k)).v
            IN /\ p.v.t \in {"null", "undefined"} =>
                    \A j \in 1..Len(outcome.parts) :
                        /\ ~IsPrefix(k \o <<"=">>, outcome.parts[j])
                        /\ ~IsPrefix(k \o <<"[", "]", "=">>, outcome.parts[j])
               /\ p.v.t = "Array" =>
                    \A e \in 1..Len(p.v.elems) :
                        /\ p.v.elems[e] = Null =>
                              (k \o <<"[", "]", "=", "n", "u", "l", "l">>)
                                  \in Range(outcome.parts)
                        /\ p.v.elems[e] = Undefined =>
                              (k \o <<"[", "]", "=", "u", "n", "d", "e", "f", "i", "n", "e", "d">>)
                                  \in Range(outcome.parts)

\* a null key beside an array that holds null and undefined
NullKeysWitness ==
    /\ DefaultDone
    /\ \E i \in 1..Len(call.params.props) : call.params.props[i].v = Null
    /\ \E i \in 1..Len(call.params.props) :
          call.params.props[i].v = Arr(<<Null, Undefined>>)
    /\ Len(outcome.parts) = 2

---------------------------------------------------------------------------
(* C6: the segments of default serialization                               *)

SegmentsByKey ==
    LET em == Emitted(call.params.props) IN
    /\ Len(outcome.parts) = Len(em)
    /\ \A i \in 1..Len(em) :
          /\ outcome.parts[i] =
                encode(Str(em[i].key)).v
                \o (IF em[i].inArray THEN <<"[", "]">> ELSE <<>>)
                \o <<"=">> \o encode(convertValue(em[i].val).v).v
          /\ Count(outcome.parts[i], "=") = 1
          /\ Count(outcome.parts[i], "&") = 0
    /\ outcome.serializedParams = join(outcome.parts, <<"&">>)

(* C6 as stated: the string is the '&'-join, in key order, of no segment   *)
(* for a null or undefined key, n segments keyed key[] in element order    *)
(* for an array of length n, one segment keyed key otherwise; each segment *)
(* holds one '=' and no '&'; the segments number the '&' plus one.         *)
SegmentsNumberSeparatorsPlusOne ==
    DefaultDone =>
        /\ SegmentsByKey
        /\ Len(outcome.parts) = Count(outcome.serializedParams, "&") + 1

(* C6 amended: as stated, and the segments number the '&' plus one         *)
(* whenever there is a segment; with none the string is empty.             *)
SegmentsPerKey ==
    DefaultDone =>
        /\ SegmentsByKey
        /\ outcome.parts # <<>> =>
              Len(outcome.parts) = Count(outcome.serializedParams, "&") + 1
        /\ outcome.parts = <<>> => outcome.serializedParams = <<>>

\* an array of two elements between two other keys: four segments
SegmentsPerKeyWitness ==
    /\ DefaultDone
    /\ Len(call.params.props) = 3
    /\ call.params.props[2].v.t = "Array"
    /\ Len(call.params.props[2].v.elems) = 2
    /\ call.params.props[2].v.elems[1] # call.params.props[2].v.elems[2]
    /\ Len(outcome.parts) = 4
    /\ Count(outcome.serializedParams, "&") = 3

---------------------------------------------------------------------------
(* C7: each emitted value is the encoding of the ISO string of a Date, of  *)
(* the JSON text of a plain object, of the string form of anything else;   *)
(* the ':' of the ISO and JSON texts stay, '{', '}' and '"' are escaped.   *)
ValueByKind ==
    /\ DefaultDone =>
          LET em == Emitted(call.params.props) IN
          /\ Len(outcome.parts) = Len(em)
          /\ \A i \in 1..Len(em) :
                LET v == em[i].val
                    text == IF v.t = "Date" THEN toISOString(v).v
                            ELSE IF v.t = "Object" THEN JSONstringify(v).v
                            ELSE ToString(v)
                    out == ValueOf(outcome.parts[i])
                IN /\ out = encode(Str(text)).v
                   /\ v.t \in {"Date", "Object"} =>
                         /\ Count(out, ":") = Count(text, ":")
                         /\ Range(out) \cap {"{", "}", "\""} = {}
    /\ buildURL(<<"/", "g">>, Obj(<<Prop(<<"f", "o", "o">>, ExampleObject)>>), Undefined).v
          = <<"/", "g", "?", "f", "o", "o", "=", "%", "7", "B", "%", "2", "2", "b", "a", "r",
              "%", "2", "2", ":", "%", "2", "2", "b", "a", "z", "%", "2", "2", "%", "7", "D">>

\* a Date and a plain object in one params object
ValueByKindWitness ==
    /\ DefaultDone
    /\ Len(outcome.parts) = 2
    /\ call.params.props[1].v = ExampleDate
    /\ call.params.props[2].v = ExampleObject
    /\ ":" \in Range(ValueOf(outcome.parts[1]))
    /\ ":" \in Range(ValueOf(outcome.parts[2]))

---------------------------------------------------------------------------
(* C8: encode, character by character *)

\* the percent-encoding of one character, the six allow-list characters
\* literal and the space as '+'
EncodedChar(c) ==
    IF c \in {"@", ":", "$", ",", "[", "]"} THEN <<c>>
    ELSE IF c = " " THEN <<"+">>
    ELSE IF c \in uriUnescaped THEN <<c>>
    ELSE PercentBytes(Utf8Hex(c))

EncodedString(s) == Concat([i \in 1..Len(s) |-> EncodedChar(s[i])])

EncodesAsStated ==
    /\ encOut.ok
    /\ encOut.v = EncodedString(encIn.val)
    /\ \A c \in {"&", "=", "?", "#", " "} : c \notin Range(encOut.v)
    /\ Count(encOut.v, "%") >= Count(encIn.val, "%") + Count(encIn.val, "+")
    /\ Count(encOut.v, "+") = Count(encIn.val, " ")

---------------------------------------------------------------------------
(* C9: on the default and the container path the params object is after    *)
(* the call what it was before it: the same keys, the key of an array not  *)
(* renamed to key[], the same values and array contents; this also when    *)
(* the call throws.  (The url is a string, passed by value.)               *)
ParamsNotMutated ==
    (DefaultPath \/ ContainerPath) =>
        /\ config.params = call.params
        /\ outcome.ok => IsPrefix(BeforeHash(call.url), config.url)

\* an array was serialized under key[] and params still holds it under key
ParamsNotMutatedWitness ==
    /\ DefaultDone
    /\ \E i \in 1..Len(call.params.props) :
          /\ call.params.props[i].v.t = "Array"
          /\ call.params.props[i].v.elems # <<>>
          /\ config.params.props[i].k = KeyName(i)
    /\ \E j \in 1..Len(outcome.parts) : "[" \in Range(outcome.parts[j])

---------------------------------------------------------------------------
(* C10: errors *)

\* the error the conversion and encoding of one key and value end in
ErrorOf(key, v) ==
    IF v.t = "Date" /\ ~v.valid THEN "RangeError"
    ELSE IF v.t = "Object" /\ HasCircular(v) THEN "TypeError"
    ELSE IF LoneSurrogate \in Range(key) THEN "URIError"
    ELSE IF v.t \notin {"Date", "Object"} /\ LoneSurrogate \in Range(ToString(v))
         THEN "URIError"
    ELSE "none"

\* the error of the first emitted value that has one
RECURSIVE FirstError(_)
FirstError(em) ==
    IF em = <<>> THEN "none"
    ELSE IF ErrorOf(Head(em).key, Head(em).val) # "none"
         THEN ErrorOf(Head(em).key, Head(em).val)
    ELSE FirstError(Tail(em))

SerializerThrew ==
    /\ call.made /\ Truthy(call.params) /\ SerializerSupplied
    /\ call.paramsSerializer.throws

SerializerErrorPropagates ==
    SerializerThrew =>
        /\ ~outcome.ok
        /\ outcome.err = "SerializerError"
        /\ outcome.v = <<>>
        /\ config.url = call.url

---------------------------------------------------------------------------
(* C11: an empty serialized string *)

\* the params the serialized string is empty for: an object without keys,
\* with null, undefined and empty arrays only, an empty URLSearchParams
NothingToAppend(params) ==
    \/ /\ params.t = "Object"
       /\ \A i \in 1..Len(params.props) :
             \/ params.props[i].v.t \in {"null", "undefined"}
             \/ params.props[i].v = Arr(<<>>)
    \/ isURLSearchParams(params) /\ params.list = <<>>

(* C11: when the serialized string is empty the merge is skipped and the   *)
(* url comes back as given, fragment included, no '?' or '&' added; the    *)
(* string is empty for an object without keys, for one whose values are    *)
(* all null, undefined or empty arrays, for a serializer that returns ''   *)
(* and for an empty URLSearchParams.                                       *)
EmptySerializedReturnsUrl ==
    /\ (Serialized /\ outcome.serializedParams = <<>>) =>
          /\ outcome.v = call.url
          /\ config.url = call.url
    /\ (Serialized /\ SerializerSupplied /\ call.paramsSerializer.ret = <<>>) =>
          outcome.serializedParams = <<>>
    /\ (Serialized /\ ~SerializerSupplied /\ NothingToAppend(call.params)) =>
          outcome.serializedParams = <<>>

\* an object of an empty array and an undefined value, a url with a fragment
EmptySerializedWitness ==
    /\ Serialized /\ DefaultPath
    /\ Len(call.params.props) = 2
    /\ call.params.props[1].v = Arr(<<>>)
    /\ outcome.serializedParams = <<>>
    /\ "#" \in Range(call.url)
    /\ outcome.v = call.url

---------------------------------------------------------------------------
(* C12: encode applied to what encode returned *)

AllowList == {"@", ":", "$", ",", " ", "[", "]"}

\* s with every occurrence of the character c replaced by the string r
RECURSIVE Subst(_, _, _)
Subst(s, c, r) ==
    IF s = <<>> THEN <<>>
    ELSE (IF Head(s) = c THEN r ELSE <<Head(s)>>) \o Subst(Tail(s), c, r)

\* encode('@:$, '), the lesson's example
EncodeOfExample == encode(Str(<<"@", ":", "$", ",", " ">>))

OfAllowList == encAgain.made /\ Range(encIn.val) \subseteq AllowList

---------------------------------------------------------------------------
(* C13: with params 0, '', false or NaN the url comes back exactly as      *)
(* given, fragment included, and nothing is called, a supplied serializer  *)
(* neither.                                                                *)
FalsyParamsShortCircuit ==
    (call.made /\ call.params \in {Num(0), Str(<<>>), Bool(FALSE), NaN}) =>
        /\ outcome.ok
        /\ outcome.v = call.url
        /\ config.url = call.url
        /\ ~outcome.serialized
        /\ log = <<>>

\* params 0, a serializer that would have returned a string, a fragment
FalsyParamsWitness ==
    /\ call.made /\ call.params = Num(0)
    /\ SerializerSupplied /\ call.paramsSerializer.ret # <<>>
    /\ "#" \in Range(call.url)
    /\ outcome.v = call.url
    /\ log = <<>>

---------------------------------------------------------------------------
(* C14: a configuration processed again *)

\* the last call appended a non-empty serialized string
Appended == Serialized /\ outcome.serializedParams # <<>>

(* C14 as stated: processing the configuration again, its url being the    *)
(* result of the call before and its params the same, gives that result    *)
(* followed by '&' and the serialized string, whenever that string is not  *)
(* empty.                                                                  *)
CumulativeAlways ==
    [][Appended =>
          /\ outcome'.ok
          /\ outcome'.v = outcome.v \o <<"&">> \o outcome.serializedParams]_vars

(* C14 amended: processing the configuration again gives the result of the *)
(* call before, cut before its first '#', followed by '&' and the same     *)
(* serialized string.  Without a serializer the string holds no '#', and   *)
(* whenever it holds none the new result is the result before followed by  *)
(* '&' and the string: every segment twice, the second time joined with    *)
(* '&'.  A '#' in a serializer's string cuts the first copy short.         *)
CumulativeUpToHash ==
    [][Appended =>
          /\ outcome'.ok
          /\ call'.url = outcome.v
          /\ outcome'.serializedParams = outcome.serializedParams
          /\ outcome'.v = BeforeHash(outcome.v) \o <<"&">> \o outcome.serializedParams
          /\ ~SerializerSupplied => "#" \notin Range(outcome.serializedParams)
          /\ "#" \notin Range(outcome.serializedParams) =>
                outcome'.v = outcome.v \o <<"&">> \o outcome.serializedParams]_vars

\* the second call of default serialization: the url of the call is "/?"
\* and the segment, the result holds the segment twice
CumulativeWitness ==
    /\ Appended /\ DefaultPath
    /\ call.url = <<"/", "?">> \o outcome.serializedParams
    /\ outcome.v = call.url \o <<"&">> \o outcome.serializedParams

===========================================================================
